---------------------------- MODULE Spec2Model ----------------------------
(***************************************************************************)
(* Checkout / inventory core of the online_kart_backend Django project.   *)
(*                                                                         *)
(* The committed database tables are the variables stock, price,          *)
(* cartItems and orders.  CartViewSet.checkout runs inside                 *)
(* @transaction.atomic: its writes are buffered per request (wStock,       *)
(* order, wDeleted) and reach the tables only when the atomic block        *)
(* exits.  Statements of different requests interleave; the          *)
(* database is a row-locking store at READ COMMITTED (Django's default):   *)
(* each statement reads the rows committed when it runs, SELECT ... FOR    *)
(* UPDATE takes row locks one row at a time and waits for a row another    *)
(* transaction holds, and the locks are released when the transaction      *)
(* ends.  Money is kept in cents (DecimalField, decimal_places=2; Decimal  *)
(* arithmetic is exact).                                                   *)
(***************************************************************************)
EXTENDS Integers, Sequences, FiniteSets, TLC

\* ------------------------------------------------------------------ bounds
MaxQty == 2          \* quantities posted to add_item range over 0..MaxQty
InitStock == 2       \* stock of every product when the run starts
MaxOrders == 2       \* Order rows created in one run

MaxAddressLen == 500 \* CheckoutSerializer.shipping_address max_length

NoUser == ""
Users == {"alice", "bob"}
Products == {1, 2}
Reqs == {"r1", "r2"}             \* concurrently served checkout requests
CartReqs == {"r1"}               \* SpecCart: the checkout slot in use
CartUsers == {"alice"}           \* SpecCart: the shopper
PriceChoices == {9999, 1250}     \* cents: 99.99 and 12.50
InitPrice == [p \in Products |-> IF p = 1 THEN 9999 ELSE 1250]
AddressLens == {0, 11, 501}      \* lengths of the posted shipping_address
Quantities == 0..MaxQty

NoOrder == [id |-> 0, user |-> "", status |-> "", total_amount |-> 0, items |-> <<>>]
NoResult == [status |-> 0, detail |-> "", product_id |-> 0, line |-> 0, lines |-> 0]

VARIABLES
    stock,        \* Product.stock, committed: [Products -> Int]
    price,        \* Product.price in cents, committed
    cartItems,    \* CartItem rows, committed: [user, product, quantity]; a Cart is
                  \*   one-to-one with its user, so the user stands for the cart
    orders,       \* Order rows with their OrderItem rows (related_name "items")
    pc,           \* per request: the statement of checkout it is about to run
                  \*   ("idle": no request; "responded": the response is on its way)
    reqUser,      \* per request: request.user
    toLock,       \* per request: products whose cart line the SELECT FOR UPDATE still has to lock
    items,        \* per request: the list `items` (rows read and locked so far)
    order,        \* per request: the Order object of the transaction
    order_items,  \* per request: the list `order_items`
    total,        \* per request: the accumulator `total`
    wStock,       \* per request: stock UPDATEs of the transaction, <<product, value>>
    wDeleted,     \* per request: products whose cart line the transaction deleted
    result        \* per request: the response

tables == <<stock, price, cartItems, orders>>
locals == <<pc, reqUser, toLock, items, order, order_items, total, wStock, wDeleted>>
vars == <<stock, price, cartItems, orders, pc, reqUser, toLock,
          items, order, order_items, total, wStock, wDeleted, result>>

\* ------------------------------------------------------------- helpers
RECURSIVE SeqSum(_)
SeqSum(s) == IF s = <<>> THEN 0 ELSE Head(s) + SeqSum(Tail(s))

Range(s) == {s[i] : i \in 1..Len(s)}

\* All orderings of a finite set, as sequences without repetition.
Orderings(S) ==
    {s \in [1..Cardinality(S) -> S] : \A i, j \in 1..Cardinality(S) : i # j => s[i] # s[j]}

\* cart.items: the CartItem rows of the user's cart, as committed now.
CartItemsOf(u) == {c \in cartItems : c.user = u}

\* The cart line of user u for product p (unique_together ("cart", "product")).
CartLine(u, p) == CHOOSE c \in cartItems : c.user = u /\ c.product = p

\* OrderItem.get_line_total
get_line_total(oi) == oi.unit_price * oi.quantity

\* Order.recalc_total's sum over the order's items
recalc_total(o) == SeqSum([i \in 1..Len(o.items) |-> get_line_total(o.items[i])])

\* CheckoutSerializer: shipping_address is a required, non-blank CharField(max_length=500)
CheckoutValid(addrLen) == addrLen >= 1 /\ addrLen <= MaxAddressLen

\* AddToCartSerializer.validate
AddToCartValid(p, q) == p \in Products /\ ~(q < 1) /\ ~(stock[p] < q)

\* ------------------------------------------------------------- row locks
InTransaction(r) == pc[r] \notin {"idle", "responded"}

\* Rows a transaction holds until it ends: the cart lines and products it selected
\* FOR UPDATE (of=("self", "product")) and the cart lines it deleted.
LockedLines(r) ==
    IF InTransaction(r)
    THEN {<<reqUser[r], it.product>> : it \in Range(items[r])}
         \cup {<<reqUser[r], p>> : p \in wDeleted[r]}
    ELSE {}
LockedProducts(r) == IF InTransaction(r) THEN {it.product : it \in Range(items[r])} ELSE {}

LineFree(r, u, p) == \A o \in Reqs \ {r} : <<u, p>> \notin LockedLines(o)
ProductFree(r, p) == \A o \in Reqs \ {r} : p \notin LockedProducts(o)
LineUnlocked(u, p) == \A o \in Reqs : <<u, p>> \notin LockedLines(o)
ProductUnlocked(p) == \A o \in Reqs : p \notin LockedProducts(o)

\* select_for_update(of=("self", "product")): the row pair can be locked once no
\* other transaction holds either row.
CanLockUnguarded(r, u, p) == TRUE
CanLock(r, u, p) == LineFree(r, u, p) /\ ProductFree(r, p)

\* A committed deletion of cart lines: a SELECT FOR UPDATE that started before it
\* and has not reached such a row yet skips the row.
RECURSIVE Without(_, _)
Without(s, gone) ==
    IF s = <<>> THEN <<>>
    ELSE IF Head(s) \in gone THEN Without(Tail(s), gone)
    ELSE <<Head(s)>> \o Without(Tail(s), gone)

SkipDeleted(tl, rows) ==
    [o \in Reqs |-> Without(tl[o], {c.product : c \in {x \in rows : x.user = reqUser[o]}})]

\* ------------------------------------------------- transaction.atomic
RECURSIVE ApplyWrites(_, _)
ApplyWrites(st, ws) ==
    IF ws = <<>> THEN st
    ELSE ApplyWrites([st EXCEPT ![Head(ws)[1]] = Head(ws)[2]], Tail(ws))

Committed == [stock |-> stock, cartItems |-> cartItems, orders |-> orders]

\* The tables with the writes of r's transaction made durable.  A row's primary
\* key is fixed here, when the row becomes visible to other requests.
Applied(r) ==
    [stock |-> ApplyWrites(stock, wStock[r]),
     cartItems |-> {c \in cartItems : ~(c.user = reqUser[r] /\ c.product \in wDeleted[r])},
     orders |-> IF order[r] = NoOrder THEN orders
                ELSE orders \cup {[order[r] EXCEPT !.id = Cardinality(orders) + 1]}]

\* Leaving the atomic block: commit when the view returned, roll back when it raised.
AtomicExitNoRollback(r, ok) == Applied(r)
AtomicExit(r, ok) == IF ok THEN Applied(r) ELSE Committed

\* The request ends: the transaction commits or rolls back, its locks go, the
\* response is sent.
Leave(r, ok, res) ==
    LET t == AtomicExit(r, ok) IN
    /\ stock' = t.stock
    /\ cartItems' = t.cartItems
    /\ orders' = t.orders
    /\ pc' = [pc EXCEPT ![r] = "responded"]
    /\ toLock' = [SkipDeleted(toLock, cartItems \ t.cartItems) EXCEPT ![r] = <<>>]
    /\ items' = [items EXCEPT ![r] = <<>>]
    /\ order' = [order EXCEPT ![r] = NoOrder]
    /\ order_items' = [order_items EXCEPT ![r] = <<>>]
    /\ total' = [total EXCEPT ![r] = 0]
    /\ wStock' = [wStock EXCEPT ![r] = <<>>]
    /\ wDeleted' = [wDeleted EXCEPT ![r] = {}]
    /\ result' = [result EXCEPT ![r] = res]
    /\ UNCHANGED <<price, reqUser>>

Response(st, detail, product_id) ==
    [status |-> st, detail |-> detail, product_id |-> product_id, line |-> 0, lines |-> 0]

\* ------------------------------------------------------------- Init
Idle ==
    /\ pc = [r \in Reqs |-> "idle"]
    /\ reqUser = [r \in Reqs |-> NoUser]
    /\ toLock = [r \in Reqs |-> <<>>]
    /\ items = [r \in Reqs |-> <<>>]
    /\ order = [r \in Reqs |-> NoOrder]
    /\ order_items = [r \in Reqs |-> <<>>]
    /\ total = [r \in Reqs |-> 0]
    /\ wStock = [r \in Reqs |-> <<>>]
    /\ wDeleted = [r \in Reqs |-> {}]
    /\ result = [r \in Reqs |-> NoResult]

\* A fresh shop: stocked products, no cart lines, no orders, no request in flight.
Init ==
    /\ stock = [p \in Products |-> InitStock]
    /\ price = InitPrice
    /\ cartItems = {}
    /\ orders = {}
    /\ Idle

\* The carts add_item can have built in a fresh shop: at most one line per
\* (user, product), each quantity between 1 and the product's stock.
ValidCarts ==
    {S \in SUBSET [user : Users, product : Products, quantity : 1..MaxQty] :
        /\ \A c \in S : c.quantity <= InitStock
        /\ \A c, d \in S : (c.user = d.user /\ c.product = d.product) => c = d}

\* A fresh shop after the shoppers filled their carts.
InitCarts ==
    /\ stock = [p \in Products |-> InitStock]
    /\ price = InitPrice
    /\ cartItems \in ValidCarts
    /\ orders = {}
    /\ Idle

\* ------------------------------------------------- CartViewSet.checkout
\* POST /cart/checkout/: the serializer runs first, and an invalid body raises
\* ValidationError before any statement touched the tables.  Then
\* cart = self._get_or_create_cart(request.user): the cart of the user.
Checkout(r, u, addrLen) ==
    /\ pc[r] = "idle"
    /\ reqUser' = [reqUser EXCEPT ![r] = u]
    /\ IF CheckoutValid(addrLen)
       THEN /\ pc' = [pc EXCEPT ![r] = "select"]
            /\ UNCHANGED result
       ELSE /\ pc' = [pc EXCEPT ![r] = "responded"]
            /\ result' = [result EXCEPT ![r] = Response(400, "invalid", 0)]
    /\ UNCHANGED <<tables, toLock, items, order, order_items, total, wStock, wDeleted>>

\* The SELECT ... FOR UPDATE starts: it sees the cart's rows committed now.  The
\* queryset has no order_by and CartItem no Meta.ordering, so the order in which
\* the database returns (and locks) the rows is the database's choice.
SelectForUpdate(r) ==
    /\ pc[r] = "select"
    /\ \E s \in Orderings({c.product : c \in CartItemsOf(reqUser[r])}) :
          toLock' = [toLock EXCEPT ![r] = s]
    /\ pc' = [pc EXCEPT ![r] = "locking"]
    /\ UNCHANGED <<tables, reqUser, items, order, order_items, total, wStock, wDeleted, result>>

\* The SELECT locks its next row pair (CartItem, Product), waiting while another
\* transaction holds one of them, and reads both rows as committed at that moment;
\* with no row left the statement returns and `items` is complete.
LockRow(r) ==
    /\ pc[r] = "locking"
    /\ IF toLock[r] = <<>>
       THEN /\ pc' = [pc EXCEPT ![r] = "check"]
            /\ UNCHANGED <<toLock, items>>
       ELSE LET p == Head(toLock[r])
                c == CartLine(reqUser[r], p)
            IN  /\ CanLock(r, reqUser[r], p)
                /\ toLock' = [toLock EXCEPT ![r] = Tail(@)]
                /\ items' = [items EXCEPT ![r] = Append(@,
                       [product |-> p, quantity |-> c.quantity,
                        stock |-> stock[p], price |-> price[p]])]
                /\ UNCHANGED pc
    /\ UNCHANGED <<tables, reqUser, order, order_items, total, wStock, wDeleted, result>>

\* it.product.stock < it.quantity
InsufficientOutOfStock(it) == it.stock < 1
Insufficient(it) == it.stock < it.quantity

\* The stock validation loop: the position of the first line it rejects, 0 if none.
FirstViolation(its) ==
    IF \E i \in 1..Len(its) : Insufficient(its[i])
    THEN CHOOSE i \in 1..Len(its) :
            Insufficient(its[i]) /\ \A j \in 1..(i - 1) : ~Insufficient(its[j])
    ELSE 0

\* `if not items`
CartIsEmptyNever(its) == FALSE
CartIsEmpty(its) == its = <<>>

\* `if not items` and the stock validation loop: no statement runs in between, and
\* either early return leaves the atomic block normally (it commits).  The fields
\* line and lines of the response record which line was rejected, of how many.
Check(r) ==
    /\ pc[r] = "check"
    /\ IF CartIsEmpty(items[r])
       THEN Leave(r, TRUE, Response(400, "Cart is empty.", 0))
       ELSE IF FirstViolation(items[r]) # 0
       THEN LET i == FirstViolation(items[r]) IN
            Leave(r, TRUE, [status |-> 400, detail |-> "Insufficient stock",
                            product_id |-> items[r][i].product,
                            line |-> i, lines |-> Len(items[r])])
       ELSE /\ pc' = [pc EXCEPT ![r] = "create_order"]
            /\ UNCHANGED <<tables, reqUser, toLock, items, order, order_items, total,
                           wStock, wDeleted, result>>

\* order = Order.objects.create(user=..., shipping_address=...); total = Decimal("0.00")
CreateOrder(r) ==
    /\ pc[r] = "create_order"
    /\ Cardinality(orders) + Cardinality({o \in Reqs : order[o] # NoOrder}) < MaxOrders
    /\ order' = [order EXCEPT ![r] = [id |-> 0, user |-> reqUser[r], status |-> "pending",
                                      total_amount |-> 0, items |-> <<>>]]
    /\ total' = [total EXCEPT ![r] = 0]
    /\ order_items' = [order_items EXCEPT ![r] = <<>>]
    /\ pc' = [pc EXCEPT ![r] = IF items[r] = <<>> THEN "bulk_create" ELSE "deduct"]
    /\ UNCHANGED <<tables, reqUser, toLock, items, wStock, wDeleted, result>>

\* OrderItem(order, product, quantity, unit_price) built from a cart line
OrderLineListPrice(it) ==
    [product |-> it.product, quantity |-> it.quantity, unit_price |-> InitPrice[it.product]]
OrderLine(it) == [product |-> it.product, quantity |-> it.quantity, unit_price |-> it.price]

\* line_total = unit_price * it.quantity
LineTotalPerLine(it) == it.price
LineTotal(it) == it.price * it.quantity

\* it.product.stock -= it.quantity
DeductedOne(it) == it.stock - 1
Deducted(it) == it.stock - it.quantity

\* One pass of the order loop.  Product.stock is a PositiveIntegerField: saving a
\* negative value raises in the database, and the exception rolls the block back.
DeductLine(r) ==
    /\ pc[r] = "deduct"
    /\ LET i == Len(order_items[r]) + 1
           it == items[r][i]
       IN  IF Deducted(it) < 0
           THEN Leave(r, FALSE, [Response(500, "error", 0) EXCEPT !.line = Len(wStock[r])])
           ELSE /\ total' = [total EXCEPT ![r] = @ + LineTotal(it)]
                /\ order_items' = [order_items EXCEPT ![r] = Append(@, OrderLine(it))]
                /\ wStock' = [wStock EXCEPT ![r] = Append(@, <<it.product, Deducted(it)>>)]
                /\ pc' = [pc EXCEPT ![r] = IF i = Len(items[r]) THEN "bulk_create" ELSE "deduct"]
                /\ UNCHANGED <<tables, reqUser, toLock, items, order, wDeleted, result>>

\* OrderItem.objects.bulk_create(order_items)
BulkCreate(r) ==
    /\ pc[r] = "bulk_create"
    /\ order' = [order EXCEPT ![r].items = order_items[r]]
    /\ pc' = [pc EXCEPT ![r] = "save_order"]
    /\ UNCHANGED <<tables, reqUser, toLock, items, order_items, total, wStock, wDeleted, result>>

\* order.total_amount = total; order.status = "paid"; order.save(...)
SaveOrder(r) ==
    /\ pc[r] = "save_order"
    /\ order' = [order EXCEPT ![r].total_amount = total[r], ![r].status = "paid"]
    /\ pc' = [pc EXCEPT ![r] = "clear_cart"]
    /\ UNCHANGED <<tables, reqUser, toLock, items, order_items, total, wStock, wDeleted, result>>

\* cart.items.all(): the products of the lines the DELETE removes
DeletesNothing(u) == {}
AllItems(u) == {c.product : c \in CartItemsOf(u)}

\* cart.items.all().delete(): one DELETE over the cart's rows committed now; it
\* waits for rows another transaction holds.
ClearCart(r) ==
    /\ pc[r] = "clear_cart"
    /\ LET ps == AllItems(reqUser[r]) IN
       /\ \A p \in ps : LineFree(r, reqUser[r], p)
       /\ wDeleted' = [wDeleted EXCEPT ![r] = ps]
    /\ pc' = [pc EXCEPT ![r] = "commit"]
    /\ UNCHANGED <<tables, reqUser, toLock, items, order, order_items, total, wStock, result>>

\* return Response(OrderSerializer(order).data, 201): the atomic block commits.
Commit(r) ==
    /\ pc[r] = "commit"
    /\ Leave(r, TRUE, Response(201, "created", 0))

\* A statement of the transaction raises (a database error): the exception
\* leaves the atomic block, which rolls back.  The field line of the response
\* records how many stock updates the transaction had made by then.
Abort(r) ==
    /\ pc[r] \in {"select", "locking", "create_order", "deduct",
                  "bulk_create", "save_order", "clear_cart", "commit"}
    /\ Leave(r, FALSE, [Response(500, "error", 0) EXCEPT !.line = Len(wStock[r])])

\* The response has been sent: the request is over.
Respond(r) ==
    /\ pc[r] = "responded"
    /\ pc' = [pc EXCEPT ![r] = "idle"]
    /\ reqUser' = [reqUser EXCEPT ![r] = NoUser]
    /\ result' = [result EXCEPT ![r] = NoResult]
    /\ UNCHANGED <<tables, toLock, items, order, order_items, total, wStock, wDeleted>>

\* ------------------------------------------------- the other cart operations
\* Each runs in autocommit mode; a write to a row a transaction holds waits.
\* CartItem.objects.get_or_create(...) that inserts without looking for the line.
add_item_creates(u, p, q) ==
    /\ AddToCartValid(p, q)
    /\ ~(stock[p] < q)
    /\ cartItems' = cartItems \cup {[user |-> u, product |-> p, quantity |-> q]}
    /\ UNCHANGED <<stock, price, orders, locals, result>>

add_item(u, p, q) ==
    /\ AddToCartValid(p, q)
    /\ ~(stock[p] < q)
    /\ IF \E c \in CartItemsOf(u) : c.product = p
       THEN /\ LineUnlocked(u, p)
            /\ cartItems' = (cartItems \ {CartLine(u, p)})
                               \cup {[CartLine(u, p) EXCEPT !.quantity = q]}
       ELSE cartItems' = cartItems \cup {[user |-> u, product |-> p, quantity |-> q]}
    /\ UNCHANGED <<stock, price, orders, locals, result>>

remove_item(u, p) ==
    /\ p # 0
    /\ LET gone == {c \in CartItemsOf(u) : c.product = p} IN
       /\ \A c \in gone : LineUnlocked(u, c.product)
       /\ cartItems' = cartItems \ gone
       /\ toLock' = SkipDeleted(toLock, gone)
    /\ UNCHANGED <<stock, price, orders, pc, reqUser, items, order, order_items, total,
                   wStock, wDeleted, result>>

clear(u) ==
    /\ \A c \in CartItemsOf(u) : LineUnlocked(u, c.product)
    /\ cartItems' = cartItems \ CartItemsOf(u)
    /\ toLock' = SkipDeleted(toLock, CartItemsOf(u))
    /\ UNCHANGED <<stock, price, orders, pc, reqUser, items, order, order_items, total,
                   wStock, wDeleted, result>>

\* An order line that follows the product's price instead of keeping its own.
Repriced(o, p, v) ==
    [o EXCEPT !.items = [i \in 1..Len(o.items) |->
        IF o.items[i].product = p THEN [o.items[i] EXCEPT !.unit_price = v] ELSE o.items[i]]]

partial_update_repricing(p, v) ==
    /\ ProductUnlocked(p)
    /\ price' = [price EXCEPT ![p] = v]
    /\ orders' = {Repriced(o, p, v) : o \in orders}
    /\ UNCHANGED <<stock, cartItems, locals, result>>

\* ProductViewSet.partial_update by staff: a new price for a product, as one
\* statement.  Stock is not restocked here (administrative restocks are outside
\* the checkout core).
partial_update(p, v) ==
    /\ ProductUnlocked(p)
    /\ price' = [price EXCEPT ![p] = v]
    /\ UNCHANGED <<stock, cartItems, orders, locals, result>>

\* OrderViewSet.get_queryset: the orders (with their lines) that list and
\* retrieve show to user u; the viewset is read-only.
get_queryset(u) == {o \in orders : o.user = u}

\* One statement of the checkout request in slot r, posted by a user of U.
Step(r, U) ==
    \/ \E u \in U, a \in AddressLens : Checkout(r, u, a)
    \/ SelectForUpdate(r)
    \/ LockRow(r)
    \/ Check(r)
    \/ CreateOrder(r)
    \/ DeductLine(r)
    \/ BulkCreate(r)
    \/ SaveOrder(r)
    \/ ClearCart(r)
    \/ Commit(r)
    \/ Abort(r)
    \/ Respond(r)

\* Concurrent checkouts over filled carts, with lines being removed meanwhile.
Next ==
    \/ \E r \in Reqs : Step(r, Users)
    \/ \E u \in Users, p \in Products \cup {0} : remove_item(u, p)
    \/ \E u \in Users : clear(u)

Spec == InitCarts /\ [][Next]_vars

\* One shopper: her checkouts, one at a time, while she fills her cart and staff
\* change prices.
NextCart ==
    \/ \E r \in CartReqs : Step(r, CartUsers)
    \/ \E u \in CartUsers, p \in Products, q \in Quantities : add_item(u, p, q)
    \/ \E p \in Products, v \in PriceChoices : partial_update(p, v)

SpecCart == Init /\ [][NextCart]_vars

\* One shopper using every cart operation while two of her checkout requests run.
NextOps ==
    \/ \E r \in Reqs : Step(r, CartUsers)
    \/ \E u \in CartUsers, p \in Products, q \in Quantities : add_item(u, p, q)
    \/ \E u \in CartUsers, p \in Products \cup {0} : remove_item(u, p)
    \/ \E u \in CartUsers : clear(u)

SpecOps == Init /\ [][NextOps]_vars

\* One shopper posting checkout again and again, two requests at a time, while
\* nothing else touches her cart.
NextRepeat == \E r \in Reqs : Step(r, CartUsers)

SpecRepeat == InitCarts /\ [][NextRepeat]_vars

\* ======================================================================
\* Properties
\* ======================================================================
\* The committed cart lines the checkout in slot r has read and holds locked.
ReadLines(r) ==
    {c \in CartItemsOf(reqUser[r]) : c.product \in {it.product : it \in Range(items[r])}}

\* Units of product p in the order lines of the orders in S.
LineQty(o, p) ==
    SeqSum([i \in 1..Len(o.items) |-> IF o.items[i].product = p THEN o.items[i].quantity ELSE 0])

RECURSIVE SoldIn(_, _)
SoldIn(S, p) ==
    IF S = {} THEN 0
    ELSE LET o == CHOOSE x \in S : TRUE IN LineQty(o, p) + SoldIn(S \ {o}, p)

Sold(p) == SoldIn(orders, p)

\* The step in which the checkout in slot r commits its order.
CommitsOrder(r) == pc[r] = "commit" /\ pc'[r] = "responded" /\ result'[r].status = 201

\* The step in which the checkout in slot r ends without an order.
Fails(r) == InTransaction(r) /\ pc'[r] = "responded" /\ result'[r].status # 201

\* ---------------------------------------------------------------- C1
\* C1: when a checkout has read a cart in which some line's quantity exceeds the
\* product's current stock, it ends with the insufficient-stock error naming such a
\* product, and that step leaves every product's stock, every cart line and the
\* orders as they were (no Order or OrderLine for the attempt).
C1_InsufficientStockAtomic ==
    [][\A r \in Reqs :
        (/\ pc[r] = "check"
         /\ pc'[r] # "check"
         /\ \E c \in ReadLines(r) : stock[c.product] < c.quantity)
        => /\ pc'[r] = "responded"
           /\ result'[r].status = 400
           /\ result'[r].detail = "Insufficient stock"
           /\ \E c \in ReadLines(r) :
                 c.product = result'[r].product_id /\ stock[c.product] < c.quantity
           /\ UNCHANGED <<stock, cartItems, orders>>]_vars

\* A checkout was refused for the last of several lines; its cart is still there.
C1_Witness ==
    \E r \in Reqs :
        /\ pc[r] = "responded"
        /\ result[r].detail = "Insufficient stock"
        /\ result[r].lines >= 2
        /\ result[r].line = result[r].lines
        /\ Cardinality(CartItemsOf(reqUser[r])) >= 2

\* ---------------------------------------------------------------- C2
\* C2: in every reachable state no product's stock is negative, and the
\* quantities of a product over all committed orders sum to at most its initial
\* stock.
C2_StockNeverOversold ==
    \A p \in Products : stock[p] >= 0 /\ Sold(p) <= InitStock

\* Contention: a checkout waits for a product row that another shopper's
\* checkout holds and has already deducted in its transaction.
C2_Witness ==
    \E r, o \in Reqs :
        /\ r # o
        /\ reqUser[r] # reqUser[o]
        /\ pc[r] = "locking"
        /\ toLock[r] # <<>>
        /\ Head(toLock[r]) \in LockedProducts(o)
        /\ \E i \in 1..Len(wStock[o]) : wStock[o][i][1] = Head(toLock[r])

\* ---------------------------------------------------------------- C3
\* What another request can read is consistent: every order is paid and has its
\* lines, and the stock missing from a product is exactly what committed orders
\* hold of it.
Consistent ==
    /\ \A o \in orders : o.status = "paid" /\ o.items # <<>>
    /\ \A p \in Products : stock[p] = InitStock - Sold(p)

\* C3: the checkout is one atomic unit.  A checkout that fails at any statement
\* leaves stock, orders (with their lines) and cart lines unchanged; the tables
\* never show a pending order, an order without lines or a stock decrement without
\* its order; and the step that makes an order visible also removes the cart lines
\* it was built from, while stock changes in no other step.
C3_CheckoutAtomic ==
    [][/\ \A r \in Reqs : Fails(r) => UNCHANGED <<stock, cartItems, orders>>
       /\ Consistent'
       /\ (stock' # stock => orders' # orders)
       /\ \A o \in orders' \ orders :
             \A i \in 1..Len(o.items) :
                ~\E c \in cartItems' : c.user = o.user /\ c.product = o.items[i].product]_vars

\* A checkout failed after it had written its order and two stock updates:
\* nothing of it is in the tables.
C3_Witness ==
    \E r \in Reqs :
        /\ pc[r] = "responded"
        /\ result[r].status = 500
        /\ result[r].line = 2
        /\ orders = {}
        /\ \A p \in Products : stock[p] = InitStock
        /\ CartItemsOf(reqUser[r]) # {}

\* ---------------------------------------------------------------- C4
\* C4: every committed order's total_amount is exactly the sum of
\* unit_price * quantity over its order lines (in cents).
C4_TotalIsSumOfLines ==
    \A o \in orders : o.total_amount = recalc_total(o)

\* A committed order with several lines, one of them with quantity above 1.
C4_Witness ==
    \E o \in orders :
        /\ Len(o.items) >= 2
        /\ \E i \in 1..Len(o.items) : o.items[i].quantity >= 2
        /\ o.total_amount > 0

\* ---------------------------------------------------------------- C5
\* C5: the step that commits a checkout adds exactly one order; it belongs to the
\* calling shopper, is paid, and has exactly one order line per cart line the
\* checkout read, with that line's product and quantity and the product's price
\* at that moment as unit_price.
C5_OrderMirrorsCart ==
    [][\A r \in Reqs :
        CommitsOrder(r) =>
          \E o \in orders' :
            /\ o \notin orders
            /\ orders' = orders \cup {o}
            /\ o.user = reqUser[r]
            /\ o.status = "paid"
            /\ Len(o.items) = Cardinality(ReadLines(r))
            /\ \A c \in ReadLines(r) :
                  \E i \in 1..Len(o.items) :
                     /\ o.items[i].product = c.product
                     /\ o.items[i].quantity = c.quantity
                     /\ o.items[i].unit_price = price[c.product]]_vars

\* A checkout committed a two-line order, one line at a price changed earlier.
C5_Witness ==
    \E r \in Reqs :
        /\ pc[r] = "responded"
        /\ result[r].status = 201
        /\ \E o \in orders :
              /\ o.user = reqUser[r]
              /\ Len(o.items) = 2
              /\ \E i \in 1..2 : o.items[i].unit_price # InitPrice[o.items[i].product]

\* ---------------------------------------------------------------- C6
\* C6: the step that commits a checkout lowers the stock of each product of a cart
\* line the checkout read by exactly that line's quantity, and leaves the stock of
\* every other product and the cart lines and orders of every other shopper
\* unchanged.
C6_StockDeductedExactly ==
    [][\A r \in Reqs :
        CommitsOrder(r) =>
          /\ \A p \in Products :
                IF \E c \in ReadLines(r) : c.product = p
                THEN stock'[p] = stock[p] - CartLine(reqUser[r], p).quantity
                ELSE stock'[p] = stock[p]
          /\ \A u \in Users \ {reqUser[r]} :
                /\ {c \in cartItems' : c.user = u} = CartItemsOf(u)
                /\ {o \in orders' : o.user = u} = {o \in orders : o.user = u}]_vars

\* A committed order for two units of one product took its stock down by two; the
\* other product is untouched and the other shopper still has a cart.
C6_Witness ==
    \E r \in Reqs, p \in Products :
        /\ pc[r] = "responded"
        /\ result[r].status = 201
        /\ orders = {[id |-> 1, user |-> reqUser[r], status |-> "paid",
                      total_amount |-> 2 * InitPrice[p],
                      items |-> <<[product |-> p, quantity |-> 2, unit_price |-> InitPrice[p]]>>]}
        /\ stock[p] = InitStock - 2
        /\ \A q \in Products \ {p} : stock[q] = InitStock
        /\ \E u \in Users \ {reqUser[r]} : CartItemsOf(u) # {}

\* ---------------------------------------------------------------- C7
\* C7 as stated: the step that commits a checkout leaves the shopper's cart
\* without lines.
C7_CartEmptyAfterCommit ==
    [][\A r \in Reqs : CommitsOrder(r) => {c \in cartItems' : c.user = reqUser[r]} = {}]_vars

\* C7 (amended): the checkout's deletion removes every line the cart has when it
\* runs, and the step that commits the checkout leaves none of the lines the
\* checkout read or deleted: a line in the cart right after the commit was added
\* by the shopper's own add_item after the deletion ran.
C7_CartClearedOfItsLines ==
    [][\A r \in Reqs :
        /\ (pc[r] = "clear_cart" /\ pc'[r] = "commit")
              => {c \in CartItemsOf(reqUser[r]) : c.product \notin wDeleted'[r]} = {}
        /\ CommitsOrder(r)
              => \A c \in cartItems' :
                    c.user = reqUser[r]
                       => /\ c.product \notin wDeleted[r]
                          /\ c \notin ReadLines(r)
                          /\ c \in cartItems]_vars

\* A checkout committed an order and the shopper's cart is empty.
C7_Witness ==
    \E r \in Reqs :
        /\ pc[r] = "responded"
        /\ result[r].status = 201
        /\ \E o \in orders : o.user = reqUser[r]
        /\ CartItemsOf(reqUser[r]) = {}

\* ---------------------------------------------------------------- C8
\* C8: every checkout locks the products of its cart lines in ascending product
\* identifier order (items lists the rows in the order they were locked).
C8_LocksAscending ==
    \A r \in Reqs :
        \A i, j \in 1..Len(items[r]) : i < j => items[r][i].product < items[r][j].product

\* ---------------------------------------------------------------- C9
\* The checkout in slot r waits for a row that the checkout in slot o holds.
WaitsFor(r, o) ==
    /\ pc[r] = "locking"
    /\ toLock[r] # <<>>
    /\ \/ Head(toLock[r]) \in LockedProducts(o)
       \/ <<reqUser[r], Head(toLock[r])>> \in LockedLines(o)

\* C9: no state is reachable in which two checkouts of different shoppers each
\* wait for a lock the other holds.
C9_NoCircularWait ==
    ~\E r, o \in Reqs :
        r # o /\ reqUser[r] # reqUser[o] /\ WaitsFor(r, o) /\ WaitsFor(o, r)

\* ---------------------------------------------------------------- C10
\* C10: a checkout that finds no cart line for its shopper reads nothing, ends with
\* the empty-cart error, and its steps leave every product's stock, the orders
\* (with their lines) and the cart lines as they were.
C10_EmptyCartNoEffect ==
    [][\A r \in Reqs :
        /\ (pc[r] = "select" /\ pc'[r] = "locking" /\ CartItemsOf(reqUser[r]) = {})
              => toLock'[r] = <<>>
        /\ (pc[r] = "check" /\ pc'[r] # "check" /\ items[r] = <<>>)
              => /\ pc'[r] = "responded"
                 /\ result'[r] = Response(400, "Cart is empty.", 0)
                 /\ UNCHANGED <<stock, cartItems, orders>>]_vars

\* A checkout of a shopper without cart lines was refused.
C10_Witness ==
    \E r \in Reqs :
        /\ pc[r] = "responded"
        /\ result[r].status = 400
        /\ result[r].detail = "Cart is empty."
        /\ CartItemsOf(reqUser[r]) = {}

\* ---------------------------------------------------------------- C11
\* The checkout in slot r is in a lock cycle with another checkout: the database
\* ends such a wait by failing one of the two transactions with a concurrency
\* conflict.
Deadlocked(r) == \E o \in Reqs \ {r} : WaitsFor(r, o) /\ WaitsFor(o, r)

\* C11: a checkout whose transaction fails with a concurrency conflict (it leaves
\* its wait inside a lock cycle, which only the failure of its transaction allows)
\* is run again by the checkout itself: it is back at its first statement with
\* nothing written and no response sent to the caller.
C11_ConflictRetried ==
    [][\A r \in Reqs :
        (Deadlocked(r) /\ pc'[r] # pc[r])
           => /\ pc'[r] = "select"
              /\ result'[r] = NoResult
              /\ UNCHANGED <<stock, cartItems, orders>>]_vars

\* ---------------------------------------------------------------- C12
\* C12: an order that is committed stays as it is in every later step: what the
\* order views show of it (status, total_amount, and each line's product,
\* quantity and unit_price) is the same after any price change, checkout or cart
\* operation, so a line's unit_price remains the price at purchase.
C12_OrdersImmutable ==
    [][\A u \in Users : \A o \in get_queryset(u) : o \in get_queryset(u)']_vars

\* An order line still carries the price at purchase after the product's price
\* was changed and a later checkout committed a second order.
C12_Witness ==
    /\ Cardinality(orders) = 2
    /\ \E o \in orders :
          /\ o.id = 1
          /\ o.total_amount = recalc_total(o)
          /\ \E i \in 1..Len(o.items) :
                /\ o.items[i].unit_price = InitPrice[o.items[i].product]
                /\ o.items[i].unit_price # price[o.items[i].product]

\* ---------------------------------------------------------------- C13
\* C13: in every reachable state each shopper's cart holds at most one line per
\* product and every cart line has a quantity of at least 1.
C13_CartLinesUnique ==
    /\ \A c, d \in cartItems : (c.user = d.user /\ c.product = d.product) => c = d
    /\ \A c \in cartItems : c.quantity >= 1


\* After a committed checkout the shopper filled her cart again, with lines for
\* two products and different quantities, and her next checkout is under way.
C13_Witness ==
    \E r \in Reqs :
        /\ orders # {}
        /\ pc[r] = "locking"
        /\ Cardinality(CartItemsOf(reqUser[r])) = 2
        /\ \E c, d \in CartItemsOf(reqUser[r]) : c.quantity = 1 /\ d.quantity = 2

\* ---------------------------------------------------------------- C14
\* Checkouts of one shopper over one cart commit at most one order and take its
\* quantities from the stock once.
OrderedOnce ==
    /\ Cardinality(orders) <= 1
    /\ \A p \in Products : stock[p] = InitStock - Sold(p)

\* A checkout that was answered once the order exists, and was neither the one
\* that created it nor cut short by a database error or an invalid body, was
\* answered with the empty-cart error.
OtherCallEmptyCart ==
    \A r \in Reqs :
        (/\ pc[r] = "responded"
         /\ orders # {}
         /\ result[r].status = 400
         /\ result[r].detail # "invalid")
        => result[r] = Response(400, "Cart is empty.", 0)

\* Two checkouts of the same shopper never block each other for good: each can
\* still end by itself, with the order or with the empty-cart error.
OtherCallCanEnd ==
    ~\E r, o \in Reqs :
        r # o /\ reqUser[r] = reqUser[o] /\ WaitsFor(r, o) /\ WaitsFor(o, r)

\* C14: with no cart mutation between them, the checkout calls of one shopper,
\* in sequence or interleaved, commit at most one order and deduct the stock at
\* most once, and the other call ends with the empty-cart error.
C14_RepeatedCheckoutOnce == OrderedOnce /\ OtherCallEmptyCart /\ OtherCallCanEnd


\* The shopper's second checkout waited for the first one's locks and was then
\* answered with the empty-cart error, the first one having committed the order.
C14_SecondCallRefused ==
    \E r, o \in Reqs :
        /\ r # o
        /\ pc[r] = "responded" /\ result[r] = Response(400, "Cart is empty.", 0)
        /\ pc[o] = "responded" /\ result[o].status = 201
        /\ reqUser[r] = reqUser[o]
        /\ Cardinality(orders) = 1

\* ---------------------------------------------------------------- C15
\* C15: every cart line that the commit of a checkout removes is represented, with
\* its product and quantity, by an order line of the order that checkout created;
\* a line the shopper added for another product after the checkout read the cart
\* is not removed unordered.
C15_DeletedLinesOrdered ==
    [][\A r \in Reqs :
        CommitsOrder(r) =>
          \A c \in cartItems \ cartItems' :
             \E o \in orders' \ orders :
                \E i \in 1..Len(o.items) :
                   /\ o.items[i].product = c.product
                   /\ o.items[i].quantity = c.quantity]_vars

=============================================================================
